---- MODULE Spec2Model ----
(***************************************************************************)
(* Model of modules/blockexplorer/addblock.go: the block explorer's        *)
(* addBlockDB, which indexes one block into the bolt buckets Hashes,       *)
(* Addresses, Blocks, Heights, Transactions, SiacoinOutputs,               *)
(* SiafundOutputs and FileContracts inside one bolt transaction.           *)
(*                                                                         *)
(* A bolt transaction is modelled as a record tx:                          *)
(*   tx.db      the buckets as seen inside the transaction                 *)
(*   tx.n       the number of fallible store operations performed so far   *)
(*   tx.failAt  the operation number at which the store fails (0: never)   *)
(*   tx.fired   whether that failure has happened                          *)
(*   tx.err     the error value the Go code currently holds                *)
(* Every Go function "f(tx, ...) error" becomes an operator f(tx, ...)     *)
(* returning the transaction record after the call, with tx.err the        *)
(* error it returned.                                                      *)
(***************************************************************************)
EXTENDS Integers, Sequences, FiniteSets, TLC

VARIABLES db, blockchainHeight, DEBUG, Release, alive, calls, last

vars == <<db, blockchainHeight, DEBUG, Release, alive, calls, last>>

\* Bound of the model: the number of calls of addBlockDB in a behaviour.
MaxCalls == 3

----------------------------------------------------------------------------
\* Hashes.  Every identifier is a crypto.Hash; distinct preimages give
\* distinct hashes, so a hash is modelled as the tagged tuple of what was
\* hashed, padded to one length so that any two hashes are comparable.

ZeroHash == <<"zero", 0, 0, 0, 0, 0>>

BlockID(k) == <<"block", k, 0, 0, 0, 0>>

TxID(k, i) == <<"txn", k, i, 0, 0, 0>>

Address(a) == <<"addr", a, 0, 0, 0, 0>>

MinerPayoutID(bid, i) == <<"payout", bid[2], i, 0, 0, 0>>

SiacoinOutputID(txid, i) == <<"sco", txid[2], txid[3], i, 0, 0>>

SiafundOutputID(txid, i) == <<"sfo", txid[2], txid[3], i, 0, 0>>

FileContractID(txid, i) == <<"fc", txid[2], txid[3], i, 0, 0>>

StorageProofOutputID(fcid, valid, j) ==
    <<"spo", fcid[2], fcid[3], fcid[4], IF valid THEN 1 ELSE 0, j>>

\* Difficulty targets: types.RootDepth, a target found by consensus, and the
\* zero Target that ChildTarget returns together with exists = false.
RootDepth == "RootDepth"
ChildTargets == {[target |-> "ChildTarget", exists |-> TRUE],
                 [target |-> "ZeroTarget", exists |-> FALSE]}

Null == [absent |-> TRUE]

----------------------------------------------------------------------------
\* The blocks the caller can hand to addBlockDB.

X == Address(1)
Y == Address(2)

EmptyTxn(k, i) ==
    [id |-> TxID(k, i),
     SiacoinInputs |-> <<>>, SiacoinOutputs |-> <<>>,
     FileContracts |-> <<>>, FileContractRevisions |-> <<>>,
     StorageProofs |-> <<>>,
     SiafundInputs |-> <<>>, SiafundOutputs |-> <<>>]

MkBlock(k, payouts, txns) ==
    [id |-> BlockID(k), ParentID |-> BlockID(k - 1), Timestamp |-> 100 + k,
     MinerPayouts |-> payouts, Transactions |-> txns]

\* the contract formed by the second transaction of Block2
TheContract == FileContractID(TxID(2, 2), 1)

\* genesis: one transaction creating a siafund output
Block0 ==
    MkBlock(0, <<>>,
        << [EmptyTxn(0, 1) EXCEPT !.SiafundOutputs = <<X>>] >>)

\* one payout to X, one transaction with one coin output to Y
Block1 ==
    MkBlock(1, <<X>>,
        << [EmptyTxn(1, 1) EXCEPT !.SiacoinOutputs = <<Y>>] >>)

\* the first transaction spends the output of Block1 and the payout of this
\* block; the second spends the output of the first and forms a contract;
\* the third revises that contract and carries a storage proof for it
Block2 ==
    MkBlock(2, <<Y>>,
        << [EmptyTxn(2, 1) EXCEPT
               !.SiacoinInputs = << SiacoinOutputID(TxID(1, 1), 1),
                                    MinerPayoutID(BlockID(2), 1) >>,
               !.SiacoinOutputs = <<Y>>],
           [EmptyTxn(2, 2) EXCEPT
               !.SiacoinInputs = << SiacoinOutputID(TxID(2, 1), 1) >>,
               !.FileContracts = << [ValidProofOutputs |-> <<X>>,
                                     MissedProofOutputs |-> <<>>,
                                     UnlockHash |-> Y] >>],
           [EmptyTxn(2, 3) EXCEPT
               !.FileContractRevisions =
                   << [ParentID |-> TheContract,
                       NewValidProofOutputs |-> <<>>,
                       NewMissedProofOutputs |-> <<>>,
                       NewUnlockHash |-> X] >>,
               !.StorageProofs = << TheContract >>] >>)

\* two transactions, each revising the contract of Block2 and carrying a
\* storage proof for it; the second one spends the output of Block1 again
Block3 ==
    MkBlock(3, <<>>,
        << [EmptyTxn(3, 1) EXCEPT
               !.FileContractRevisions =
                   << [ParentID |-> TheContract,
                       NewValidProofOutputs |-> <<Y>>,
                       NewMissedProofOutputs |-> <<>>,
                       NewUnlockHash |-> X] >>,
               !.StorageProofs = << TheContract >>],
           [EmptyTxn(3, 2) EXCEPT
               !.SiacoinInputs = << SiacoinOutputID(TxID(1, 1), 1) >>,
               !.FileContractRevisions =
                   << [ParentID |-> TheContract,
                       NewValidProofOutputs |-> <<>>,
                       NewMissedProofOutputs |-> <<>>,
                       NewUnlockHash |-> Y] >>,
               !.StorageProofs = << TheContract >>] >>)

\* moves the genesis siafunds
Block4 ==
    MkBlock(4, <<>>,
        << [EmptyTxn(4, 1) EXCEPT
               !.SiafundInputs = << SiafundOutputID(TxID(0, 1), 1) >>,
               !.SiafundOutputs = <<Y>>] >>)

\* a valid transaction, a storage proof for the contract of Block2, then a
\* transaction spending an output that only it creates itself
Block5 ==
    MkBlock(5, <<>>,
        << [EmptyTxn(5, 1) EXCEPT !.SiacoinOutputs = <<X>>],
           [EmptyTxn(5, 2) EXCEPT !.StorageProofs = << TheContract >>],
           [EmptyTxn(5, 3) EXCEPT
               !.SiacoinInputs = << SiacoinOutputID(TxID(5, 3), 1) >>,
               !.SiacoinOutputs = <<Y>>] >>)

\* the first transaction spends the output that only the second creates
Block6 ==
    MkBlock(6, <<X>>,
        << [EmptyTxn(6, 1) EXCEPT
               !.SiacoinInputs = << SiacoinOutputID(TxID(6, 2), 1) >>],
           [EmptyTxn(6, 2) EXCEPT !.SiacoinOutputs = <<Y>>] >>)

Feed == {Block0, Block1, Block2, Block3, Block4, Block5, Block6}

genesisBlockID == BlockID(0)

\* len(encoding.Marshal(b)): the encoding grows with every element of b
RECURSIVE TxnsLen(_, _)
TxnsLen(txns, i) ==
    IF i > Len(txns) THEN 0
    ELSE 1 + Len(txns[i].SiacoinInputs) + Len(txns[i].SiacoinOutputs)
           + Len(txns[i].FileContracts) + Len(txns[i].FileContractRevisions)
           + Len(txns[i].StorageProofs) + Len(txns[i].SiafundInputs)
           + Len(txns[i].SiafundOutputs) + TxnsLen(txns, i + 1)

MarshalLen(b) == 3 + Len(b.MinerPayouts) + TxnsLen(b.Transactions, 1)

----------------------------------------------------------------------------
\* The store.

Buckets == {"Hashes", "Addresses", "Blocks", "Heights", "Transactions",
            "SiacoinOutputs", "SiafundOutputs", "FileContracts"}

EmptyDB == [bk \in Buckets |-> <<>>]

Put(m, key, val) ==
    [x \in (DOMAIN m) \cup {key} |-> IF x = key THEN val ELSE m[x]]

\* getObject: absent key -> ErrNilEntry; otherwise the decoded value, or
\* the decoder's error
getObject(tx, bucket, key) ==
    IF key \notin DOMAIN tx.db[bucket]
    THEN [tx |-> [tx EXCEPT !.n = @ + 1], err |-> "ErrNilEntry",
          obj |-> Null]
    ELSE IF tx.n + 1 = tx.failAt
         THEN [tx |-> [tx EXCEPT !.n = @ + 1, !.fired = TRUE],
               err |-> "storeError", obj |-> Null]
         ELSE [tx |-> [tx EXCEPT !.n = @ + 1], err |-> "nil",
               obj |-> tx.db[bucket][key]]

\* putObject: writes key -> val into the bucket, or returns the store's error
putObject(tx, bucket, key, val) ==
    IF tx.n + 1 = tx.failAt
    THEN [tx EXCEPT !.n = @ + 1, !.fired = TRUE, !.err = "storeError"]
    ELSE [tx EXCEPT !.n = @ + 1, !.db[bucket] = Put(@, key, val),
                    !.err = "nil"]

\* "return err" with the error of a failed getObject
ReturnErr(tx, err) == [tx EXCEPT !.err = err]

----------------------------------------------------------------------------
\* The index writers.

addHashType(tx, hash, hashType) == putObject(tx, "Hashes", hash, hashType)

\* addAddress: the list is read and, only when the read returns ErrNilEntry,
\* extended by txid and written; every other outcome of the read, the
\* successful one included, is returned as it is
addAddress(tx, addr, txid) ==
    LET t1 == addHashType(tx, addr, "hashUnlockHash") IN
    IF t1.err # "nil" THEN t1
    ELSE LET g == getObject(t1, "Addresses", addr) IN
         IF g.err # "ErrNilEntry" THEN ReturnErr(g.tx, g.err)
         ELSE putObject(g.tx, "Addresses", addr, <<txid>>)

\* (the spend written into the creator field)
addSiacoinInputAsCreator(tx, outputID, txid) ==
    LET g == getObject(tx, "SiacoinOutputs", outputID) IN
    IF g.err # "nil" THEN ReturnErr(g.tx, g.err)
    ELSE putObject(g.tx, "SiacoinOutputs", outputID,
                   [g.obj EXCEPT !.OutputTx = txid])

\* (a missing output created on the fly instead of refused)
addSiacoinInputCreates(tx, outputID, txid) ==
    LET g == getObject(tx, "SiacoinOutputs", outputID) IN
    IF g.err = "ErrNilEntry"
    THEN putObject(g.tx, "SiacoinOutputs", outputID,
                   [OutputTx |-> ZeroHash, InputTx |-> txid])
    ELSE IF g.err # "nil" THEN ReturnErr(g.tx, g.err)
    ELSE putObject(g.tx, "SiacoinOutputs", outputID,
                   [g.obj EXCEPT !.InputTx = txid])

addSiacoinInput(tx, outputID, txid) ==
    LET g == getObject(tx, "SiacoinOutputs", outputID) IN
    IF g.err # "nil" THEN ReturnErr(g.tx, g.err)
    ELSE putObject(g.tx, "SiacoinOutputs", outputID,
                   [g.obj EXCEPT !.InputTx = txid])

addSiafundInput(tx, outputID, txid) ==
    LET g == getObject(tx, "SiafundOutputs", outputID) IN
    IF g.err # "nil" THEN ReturnErr(g.tx, g.err)
    ELSE putObject(g.tx, "SiafundOutputs", outputID,
                   [g.obj EXCEPT !.InputTx = txid])

\* (a missing contract created on the fly instead of refused)
addFcRevisionCreates(tx, fcid, txid) ==
    LET g == getObject(tx, "FileContracts", fcid) IN
    IF g.err = "ErrNilEntry"
    THEN putObject(g.tx, "FileContracts", fcid,
                   [Contract |-> ZeroHash, Revisions |-> <<txid>>,
                    Proof |-> ZeroHash])
    ELSE IF g.err # "nil" THEN ReturnErr(g.tx, g.err)
    ELSE putObject(g.tx, "FileContracts", fcid,
                   [g.obj EXCEPT !.Revisions = Append(@, txid)])

\* (the revision list replaced instead of extended)
addFcRevisionReplaces(tx, fcid, txid) ==
    LET g == getObject(tx, "FileContracts", fcid) IN
    IF g.err # "nil" THEN ReturnErr(g.tx, g.err)
    ELSE putObject(g.tx, "FileContracts", fcid,
                   [g.obj EXCEPT !.Revisions = <<txid>>])

addFcRevision(tx, fcid, txid) ==
    LET g == getObject(tx, "FileContracts", fcid) IN
    IF g.err # "nil" THEN ReturnErr(g.tx, g.err)
    ELSE putObject(g.tx, "FileContracts", fcid,
                   [g.obj EXCEPT !.Revisions = Append(@, txid)])

addFcProof(tx, fcid, txid) ==
    LET g == getObject(tx, "FileContracts", fcid) IN
    IF g.err # "nil" THEN ReturnErr(g.tx, g.err)
    ELSE putObject(g.tx, "FileContracts", fcid,
                   [g.obj EXCEPT !.Proof = txid])

\* (the record written without registering the hash)
addNewHashUnregistered(tx, bucketName, t, hash, value) ==
    putObject(tx, bucketName, hash, value)

addNewHash(tx, bucketName, t, hash, value) ==
    LET t1 == addHashType(tx, hash, t) IN
    IF t1.err # "nil" THEN t1
    ELSE putObject(t1, bucketName, hash, value)

\* (creator and spender swapped in the struct literal)
addNewOutputSwapped(tx, outputID, txid) ==
    addNewHash(tx, "SiacoinOutputs", "hashCoinOutputID", outputID,
               [OutputTx |-> ZeroHash, InputTx |-> txid])

addNewOutput(tx, outputID, txid) ==
    addNewHash(tx, "SiacoinOutputs", "hashCoinOutputID", outputID,
               [OutputTx |-> txid, InputTx |-> ZeroHash])

addNewSFOutput(tx, outputID, txid) ==
    addNewHash(tx, "SiafundOutputs", "hashFundOutputID", outputID,
               [OutputTx |-> txid, InputTx |-> ZeroHash])

\* (the summary stored one height too far)
addHeightOffByOne(tx, height, bs) == putObject(tx, "Heights", height + 1, bs)

addHeight(tx, height, bs) == putObject(tx, "Heights", height, bs)

----------------------------------------------------------------------------------------------------------------------------------------
\* "if err != nil { return err }": the step that follows runs, on the
\* transaction the step before it left, only when that one returned no error
Then(tx, step(_)) == IF tx.err # "nil" THEN tx ELSE step(tx)

\* addTransaction, loop by loop.  Each loop operator runs the loop from
\* index i on and stops at the first error.

RECURSIVE siacoinInputsLoop(_, _, _)
siacoinInputsLoop(tx, txn, i) ==
    IF tx.err # "nil" \/ i > Len(txn.SiacoinInputs) THEN tx
    ELSE siacoinInputsLoop(addSiacoinInput(tx, txn.SiacoinInputs[i], txn.id),
                           txn, i + 1)

RECURSIVE siacoinOutputsLoop(_, _, _)
siacoinOutputsLoop(tx, txn, i) ==
    IF tx.err # "nil" \/ i > Len(txn.SiacoinOutputs) THEN tx
    ELSE siacoinOutputsLoop(
             Then(addAddress(tx, txn.SiacoinOutputs[i], txn.id), LAMBDA t :
                  addNewOutput(t, SiacoinOutputID(txn.id, i), txn.id)),
             txn, i + 1)

\* the valid (valid = TRUE) or missed proof outputs of a new contract
RECURSIVE contractOutputsLoop(_, _, _, _, _, _)
contractOutputsLoop(tx, outputs, fcid, valid, txid, j) ==
    IF tx.err # "nil" \/ j > Len(outputs) THEN tx
    ELSE contractOutputsLoop(
             Then(addAddress(tx, outputs[j], txid), LAMBDA t :
                  addNewOutput(t, StorageProofOutputID(fcid, valid, j), txid)),
             outputs, fcid, valid, txid, j + 1)

\* one file contract: its record, its proof outputs, its unlock hash
fileContract(tx, contract, fcid, txid) ==
    Then(addNewHash(tx, "FileContracts", "hashFilecontract", fcid,
                    [Contract |-> txid, Revisions |-> <<>>,
                     Proof |-> ZeroHash]), LAMBDA t1 :
    Then(contractOutputsLoop(t1, contract.ValidProofOutputs, fcid, TRUE,
                             txid, 1), LAMBDA t2 :
    Then(contractOutputsLoop(t2, contract.MissedProofOutputs, fcid, FALSE,
                             txid, 1), LAMBDA t3 :
    addAddress(t3, contract.UnlockHash, txid))))

RECURSIVE fileContractsLoop(_, _, _)
fileContractsLoop(tx, txn, i) ==
    IF tx.err # "nil" \/ i > Len(txn.FileContracts) THEN tx
    ELSE fileContractsLoop(
             fileContract(tx, txn.FileContracts[i],
                          FileContractID(txn.id, i), txn.id),
             txn, i + 1)

\* the new valid (valid = TRUE) or missed proof outputs of a revision
RECURSIVE revisionOutputsLoop(_, _, _, _, _, _)
revisionOutputsLoop(tx, outputs, parentID, valid, txid, i) ==
    IF tx.err # "nil" \/ i > Len(outputs) THEN tx
    ELSE revisionOutputsLoop(
             Then(addAddress(tx, outputs[i], txid), LAMBDA t :
                  addNewOutput(t, StorageProofOutputID(parentID, valid, i),
                               txid)),
             outputs, parentID, valid, txid, i + 1)

\* the last statement of the revision loop body calls addAddress and drops
\* the error it returns
revisionUnlockHash(tx, revision, txid) ==
    [addAddress(tx, revision.NewUnlockHash, txid) EXCEPT !.err = "nil"]

\* one revision: the contract's list, the new proof outputs, the unlock hash
fileContractRevision(tx, revision, txid) ==
    Then(addFcRevision(tx, revision.ParentID, txid), LAMBDA t1 :
    Then(revisionOutputsLoop(t1, revision.NewValidProofOutputs,
                             revision.ParentID, TRUE, txid, 1), LAMBDA t2 :
    Then(revisionOutputsLoop(t2, revision.NewMissedProofOutputs,
                             revision.ParentID, FALSE, txid, 1), LAMBDA t3 :
    revisionUnlockHash(t3, revision, txid))))

RECURSIVE revisionsLoop(_, _, _)
revisionsLoop(tx, txn, k) ==
    IF tx.err # "nil" \/ k > Len(txn.FileContractRevisions) THEN tx
    ELSE revisionsLoop(
             fileContractRevision(tx, txn.FileContractRevisions[k], txn.id),
             txn, k + 1)

RECURSIVE storageProofsLoop(_, _, _)
storageProofsLoop(tx, txn, i) ==
    IF tx.err # "nil" \/ i > Len(txn.StorageProofs) THEN tx
    ELSE storageProofsLoop(addFcProof(tx, txn.StorageProofs[i], txn.id),
                           txn, i + 1)

RECURSIVE siafundInputsLoop(_, _, _)
siafundInputsLoop(tx, txn, i) ==
    IF tx.err # "nil" \/ i > Len(txn.SiafundInputs) THEN tx
    ELSE siafundInputsLoop(addSiafundInput(tx, txn.SiafundInputs[i], txn.id),
                           txn, i + 1)

RECURSIVE siafundOutputsLoop(_, _, _)
siafundOutputsLoop(tx, txn, i) ==
    IF tx.err # "nil" \/ i > Len(txn.SiafundOutputs) THEN tx
    ELSE siafundOutputsLoop(
             Then(addAddress(tx, txn.SiafundOutputs[i], txn.id), LAMBDA t :
                  addNewSFOutput(t, SiafundOutputID(txn.id, i), txn.id)),
             txn, i + 1)

\* (the coin outputs handled before the coin inputs)
addTransactionOutputsFirst(btx, txn) ==
    Then(siacoinOutputsLoop(btx, txn, 1), LAMBDA t1 :
    Then(siacoinInputsLoop(t1, txn, 1), LAMBDA t2 :
    Then(fileContractsLoop(t2, txn, 1), LAMBDA t3 :
    Then(revisionsLoop(t3, txn, 1), LAMBDA t4 :
    Then(storageProofsLoop(t4, txn, 1), LAMBDA t5 :
    Then(siafundInputsLoop(t5, txn, 1), LAMBDA t6 :
    Then(siafundOutputsLoop(t6, txn, 1), LAMBDA t7 :
    addHashType(t7, txn.id, "hashTransaction"))))))))

addTransaction(btx, txn) ==
    Then(siacoinInputsLoop(btx, txn, 1), LAMBDA t1 :
    Then(siacoinOutputsLoop(t1, txn, 1), LAMBDA t2 :
    Then(fileContractsLoop(t2, txn, 1), LAMBDA t3 :
    Then(revisionsLoop(t3, txn, 1), LAMBDA t4 :
    Then(storageProofsLoop(t4, txn, 1), LAMBDA t5 :
    Then(siafundInputsLoop(t5, txn, 1), LAMBDA t6 :
    Then(siafundOutputsLoop(t6, txn, 1), LAMBDA t7 :
    addHashType(t7, txn.id, "hashTransaction"))))))))

----------------------------------------------------------------------------
\* addBlockDB.

\* (the debug check of the consensus answer left out)
blockTargetNoPanic(b, look) ==
    IF b.id = genesisBlockID
    THEN [target |-> RootDepth, panic |-> FALSE]
    ELSE [target |-> IF DEBUG /\ Release = "testing" THEN RootDepth
                     ELSE look.target,
          panic |-> FALSE]

\* (no special case for the genesis block)
blockTargetNoGenesis(b, look) ==
    IF DEBUG
    THEN [target |-> IF Release = "testing" THEN RootDepth ELSE look.target,
          panic |-> ~look.exists]
    ELSE [target |-> look.target, panic |-> FALSE]

\* lines 180-195: the target of the block, and whether the process panics
blockTarget(b, look) ==
    IF b.id = genesisBlockID
    THEN [target |-> RootDepth, panic |-> FALSE]
    ELSE IF DEBUG
         THEN [target |-> IF Release = "testing" THEN RootDepth
                          ELSE look.target,
               panic |-> ~look.exists]
         ELSE [target |-> look.target, panic |-> FALSE]

\* be.db.Begin(true): a fresh read-write transaction on the committed
\* store, or the store's error
Begin(store, failAt) ==
    [db |-> store, n |-> 1, failAt |-> failAt, fired |-> (failAt = 1),
     err |-> IF failAt = 1 THEN "storeError" ELSE "nil"]

RECURSIVE minerPayoutsLoop(_, _, _)
minerPayoutsLoop(tx, b, i) ==
    IF tx.err # "nil" \/ i > Len(b.MinerPayouts) THEN tx
    ELSE minerPayoutsLoop(
             Then(addAddress(tx, b.MinerPayouts[i], b.id), LAMBDA t :
                  addNewOutput(t, MinerPayoutID(b.id, i), b.id)),
             b, i + 1)

RECURSIVE transactionsLoop(_, _, _)
transactionsLoop(tx, b, i) ==
    IF tx.err # "nil" \/ i > Len(b.Transactions) THEN tx
    ELSE transactionsLoop(
             Then(addNewHash(tx, "Transactions", "hashTransaction",
                             b.Transactions[i].id,
                             [BlockID |-> b.id, TxNum |-> i - 1]), LAMBDA t :
                  addTransaction(t, b.Transactions[i])),
             b, i + 1)

\* tx.Commit(): the writes of the transaction become the committed store,
\* or the store's error
Commit(tx) ==
    IF tx.n + 1 = tx.failAt
    THEN [tx EXCEPT !.n = @ + 1, !.fired = TRUE, !.err = "storeError"]
    ELSE [tx EXCEPT !.n = @ + 1, !.err = "nil"]

\* lines 197-254: the body of addBlockDB inside the bolt transaction
indexBlock(store, b, height, target, failAt) ==
    Then(Begin(store, failAt), LAMBDA t0 :
    Then(addNewHash(t0, "Blocks", "hashBlock", b.id,
                    [Block |-> b, Height |-> height]), LAMBDA t1 :
    Then(addHeight(t1, height,
                   [ID |-> b.id, Timestamp |-> b.Timestamp,
                    Target |-> target, Size |-> MarshalLen(b)]), LAMBDA t2 :
    Then(addHashType(t2, b.id, "hashBlock"), LAMBDA t3 :
    Then(minerPayoutsLoop(t3, b, 1), LAMBDA t4 :
    Then(transactionsLoop(t4, b, 1), LAMBDA t5 :
    Commit(t5)))))))

\* (a defer that discards nothing)
RollbackKeepsWrites(store, tx) == tx.db

\* the committed store after the deferred tx.Rollback(): the writes of a
\* transaction that was not committed are discarded
Rollback(store, tx) == IF tx.err = "nil" THEN tx.db ELSE store

\* addBlockDB(b) on the committed store: the outcome of the call
addBlockDB(store, b, height, look, failAt) ==
    LET bt == blockTarget(b, look) IN
    IF bt.panic
    THEN [panic |-> TRUE, err |-> "panic", db |-> store, fired |-> FALSE,
          dirty |-> FALSE, began |-> FALSE, ops |-> 0]
    ELSE LET tx == indexBlock(store, b, height, bt.target, failAt) IN
         [panic |-> FALSE, err |-> tx.err, db |-> Rollback(store, tx),
          fired |-> tx.fired, dirty |-> (tx.db # store), began |-> TRUE,
          ops |-> tx.n]

----------------------------------------------------------------------------
\* The state machine: a build of the explorer, a caller that hands blocks
\* to addBlockDB and maintains the height counter.

Builds == {[DEBUG |-> d, Release |-> r] :
              d \in BOOLEAN, r \in {"testing", "standard"}}

\* last: the most recent call of addBlockDB: its block, the consensus
\* lookup's answer, the height counter and the store before the call, the
\* error returned ("panic": the process was aborted), whether the store
\* failed during the call, whether the transaction held writes when the
\* call ended, and whether be.db.Begin was called at all
NoCall == [block |-> Null, look |-> Null, height |-> 0, pre |-> EmptyDB,
           err |-> "none", fired |-> FALSE, dirty |-> FALSE,
           began |-> FALSE]

Init ==
    /\ db = EmptyDB
    /\ blockchainHeight = 0
    /\ \E bld \in Builds : DEBUG = bld.DEBUG /\ Release = bld.Release
    /\ alive = TRUE
    /\ calls = 0
    /\ last = NoCall

\* the number of store operations of addBlockDB(b) when the store never fails
OpsOf(store, b, height, look) == addBlockDB(store, b, height, look, 0).ops

\* the caller feeds the next block only while every call so far returned
\* nil: after an error it halts the pipeline
Feeding == alive /\ last.err \in {"none", "nil"}

AddBlock ==
    /\ Feeding
    /\ calls < MaxCalls
    /\ \E b \in Feed, look \in ChildTargets :
         \E failAt \in 0 .. OpsOf(db, b, blockchainHeight, look) :
           \E r \in {addBlockDB(db, b, blockchainHeight, look, failAt)} :
             /\ db' = r.db
             /\ alive' = ~r.panic
             /\ calls' = calls + 1
             /\ last' = [block |-> b, look |-> look,
                         height |-> blockchainHeight, pre |-> db,
                         err |-> r.err, fired |-> r.fired,
                         dirty |-> r.dirty, began |-> r.began]
    /\ UNCHANGED <<blockchainHeight, DEBUG, Release>>

\* the caller moves its height counter, at most once per block it has
\* handed over and only when another block is to follow
AdvanceHeight ==
    /\ Feeding
    /\ calls < MaxCalls
    /\ blockchainHeight < calls
    /\ blockchainHeight' = blockchainHeight + 1
    /\ UNCHANGED <<db, DEBUG, Release, alive, calls, last>>

Next == AddBlock \/ AdvanceHeight

Spec == Init /\ [][Next]_vars

TypeOK ==
    /\ DOMAIN db = Buckets
    /\ blockchainHeight \in 0 .. MaxCalls
    /\ calls \in 0 .. MaxCalls

----------------------------------------------------------------------------
\* What a block asks for, read off the block itself.

Called == last.err # "none"
Returned == Called /\ last.err # "panic"
Ok == last.err = "nil"
Addrs == {X, Y}

\* the addresses a list of contracts / revisions refers to, in the order of
\* the lists
RECURSIVE ContractAddrs(_, _)
ContractAddrs(fcs, i) ==
    IF i > Len(fcs) THEN <<>>
    ELSE fcs[i].ValidProofOutputs \o fcs[i].MissedProofOutputs
         \o <<fcs[i].UnlockHash>> \o ContractAddrs(fcs, i + 1)

RECURSIVE RevisionAddrs(_, _)
RevisionAddrs(revs, i) ==
    IF i > Len(revs) THEN <<>>
    ELSE revs[i].NewValidProofOutputs \o revs[i].NewMissedProofOutputs
         \o <<revs[i].NewUnlockHash>> \o RevisionAddrs(revs, i + 1)

TxnAddrs(txn) ==
    txn.SiacoinOutputs \o ContractAddrs(txn.FileContracts, 1)
    \o RevisionAddrs(txn.FileContractRevisions, 1) \o txn.SiafundOutputs

\* n copies of id
Copies(n, id) == [j \in 1 .. n |-> id]

Occurrences(seq, a) == Cardinality({j \in 1 .. Len(seq) : seq[j] = a})

RECURSIVE TxnsRefs(_, _, _)
TxnsRefs(txns, i, a) ==
    IF i > Len(txns) THEN <<>>
    ELSE Copies(Occurrences(TxnAddrs(txns[i]), a), txns[i].id)
         \o TxnsRefs(txns, i + 1, a)

\* the ids block b references address a with, in arrival order
BlockRefs(b, a) ==
    Copies(Occurrences(b.MinerPayouts, a), b.id)
    \o TxnsRefs(b.Transactions, 1, a)

ListOf(store, a) ==
    IF a \in DOMAIN store.Addresses THEN store.Addresses[a] ELSE <<>>

----------------------------------------------------------------------------
\* C1: if the store fails at any single step of addBlockDB(B), the store
\* after the call is the store before the call.
C1_AtomicUnderFailure == last.fired => db = last.pre

\* C2: whenever addBlockDB returns an error, whichever step produced it and
\* whatever was written before, the committed store is the store before the
\* call; the store changes only when the commit is reached.
C2_RollbackOnError == (Called /\ ~Ok) => db = last.pre

\* a call that returned an error after writes of the block had been made
C2_Witness ==
    /\ Returned /\ ~Ok /\ last.dirty
    /\ last.pre # EmptyDB
    /\ db = last.pre

\* C3: after a block commits, the list of every address is its list before
\* the block followed by one entry per reference of the block, in arrival
\* order.
C3_AddressAccumulation ==
    (Ok /\ ~last.fired) =>
        \A a \in Addrs :
            ListOf(db, a) = ListOf(last.pre, a) \o BlockRefs(last.block, a)

----------------------------------------------------------------------------
\* Outputs and contracts a block creates and uses, read off the block.
\* "at" is the position of the transaction in the block; the miner payouts
\* come before every transaction, at position 0.

TxnIdx(b) == 1 .. Len(b.Transactions)

\* the coin outputs made by miner payouts and by transaction outputs
CoinCreations(b) ==
    {[id |-> MinerPayoutID(b.id, i), by |-> b.id, at |-> 0] :
        i \in 1 .. Len(b.MinerPayouts)}
    \cup UNION {{[id |-> SiacoinOutputID(b.Transactions[t].id, i),
                  by |-> b.Transactions[t].id, at |-> t] :
                    i \in 1 .. Len(b.Transactions[t].SiacoinOutputs)} :
                t \in TxnIdx(b)}

FundCreations(b) ==
    UNION {{[id |-> SiafundOutputID(b.Transactions[t].id, i),
             by |-> b.Transactions[t].id, at |-> t] :
               i \in 1 .. Len(b.Transactions[t].SiafundOutputs)} :
           t \in TxnIdx(b)}

CoinSpends(b) ==
    UNION {{[id |-> b.Transactions[t].SiacoinInputs[i],
             by |-> b.Transactions[t].id, at |-> t] :
               i \in 1 .. Len(b.Transactions[t].SiacoinInputs)} :
           t \in TxnIdx(b)}

FundSpends(b) ==
    UNION {{[id |-> b.Transactions[t].SiafundInputs[i],
             by |-> b.Transactions[t].id, at |-> t] :
               i \in 1 .. Len(b.Transactions[t].SiafundInputs)} :
           t \in TxnIdx(b)}

\* the proof outputs pre-created for new contracts and for revisions
ProofOutputIds(b) ==
    UNION {UNION {{StorageProofOutputID(
                       FileContractID(b.Transactions[t].id, i), TRUE, j) :
                     j \in 1 .. Len(b.Transactions[t].FileContracts[i]
                                        .ValidProofOutputs)}
                  \cup
                  {StorageProofOutputID(
                       FileContractID(b.Transactions[t].id, i), FALSE, j) :
                     j \in 1 .. Len(b.Transactions[t].FileContracts[i]
                                        .MissedProofOutputs)} :
                i \in 1 .. Len(b.Transactions[t].FileContracts)} :
           t \in TxnIdx(b)}
    \cup
    UNION {UNION {{StorageProofOutputID(
                       b.Transactions[t].FileContractRevisions[i].ParentID,
                       TRUE, j) :
                     j \in 1 .. Len(b.Transactions[t].FileContractRevisions[i]
                                        .NewValidProofOutputs)}
                  \cup
                  {StorageProofOutputID(
                       b.Transactions[t].FileContractRevisions[i].ParentID,
                       FALSE, j) :
                     j \in 1 .. Len(b.Transactions[t].FileContractRevisions[i]
                                        .NewMissedProofOutputs)} :
                i \in 1 .. Len(b.Transactions[t].FileContractRevisions)} :
           t \in TxnIdx(b)}

\* the record of output o after a committed block: created and spent sets
\* of the block, bucket before the block
ExpectedOutput(o, before, created, spends) ==
    LET c == {r \in created : r.id = o}
        cr == CHOOSE r \in c : TRUE
        sp == {r \in spends : r.id = o /\ (c # {} => r.at > cr.at)}
        lastSp == CHOOSE r \in sp : \A q \in sp : q.at <= r.at
    IN [OutputTx |-> IF c # {} THEN cr.by ELSE before[o].OutputTx,
        InputTx |-> IF sp # {} THEN lastSp.by
                    ELSE IF c # {} THEN ZeroHash ELSE before[o].InputTx]

\* C4: an output created by T has the record (creator T, no spender); once
\* a transaction T2 with an input referencing it is indexed the record is
\* (creator T, spender T2); spending leaves the creator as it was.  Stated
\* for the payout, coin and fund outputs after every committed block.
C4_OutputLifecycle ==
    Ok =>
      /\ \A r \in CoinCreations(last.block) :
             r.id \in DOMAIN db.SiacoinOutputs
      /\ \A r \in FundCreations(last.block) :
             r.id \in DOMAIN db.SiafundOutputs
      /\ \A o \in (DOMAIN db.SiacoinOutputs) \ ProofOutputIds(last.block) :
             db.SiacoinOutputs[o] =
                 ExpectedOutput(o, last.pre.SiacoinOutputs,
                                CoinCreations(last.block),
                                CoinSpends(last.block))
      /\ \A o \in DOMAIN db.SiafundOutputs :
             db.SiafundOutputs[o] =
                 ExpectedOutput(o, last.pre.SiafundOutputs,
                                FundCreations(last.block),
                                FundSpends(last.block))

\* a block committed whose transaction spends a coin output that an
\* earlier block created and nobody had spent, and likewise a fund output
C4_Witness ==
    /\ Ok
    /\ \E r \in CoinSpends(last.block) :
          /\ r.id \in DOMAIN last.pre.SiacoinOutputs
          /\ last.pre.SiacoinOutputs[r.id].InputTx = ZeroHash
          /\ db.SiacoinOutputs[r.id].InputTx = r.by
          /\ db.SiacoinOutputs[r.id].OutputTx # r.by

C4_WitnessFund ==
    /\ Ok
    /\ \E r \in FundSpends(last.block) :
          /\ r.id \in DOMAIN last.pre.SiafundOutputs
          /\ last.pre.SiafundOutputs[r.id].InputTx = ZeroHash
          /\ db.SiafundOutputs[r.id].InputTx = r.by

\* block b has a coin input whose output is neither in the bucket nor
\* created earlier in b
MissingCoinInput(before, b) ==
    \E s \in CoinSpends(b) :
        /\ s.id \notin DOMAIN before
        /\ ~\E r \in CoinCreations(b) : r.id = s.id /\ r.at < s.at
        /\ s.id \notin ProofOutputIds(b)

\* C5: a block with a coin input whose output has no record and is not
\* created earlier in the block commits nothing, and addBlockDB returns
\* ErrNilEntry (unless the store itself failed first).
C5_SpendNeverCreated ==
    (Returned /\ MissingCoinInput(last.pre.SiacoinOutputs, last.block)) =>
        /\ ~Ok
        /\ db = last.pre
        /\ ~last.fired => last.err = "ErrNilEntry"

\* such a block, with a valid transaction before the offending one, was
\* refused after its block record, height summary and the writes of the
\* valid transaction had been made
C5_Witness ==
    /\ Returned /\ ~last.fired /\ last.err = "ErrNilEntry" /\ last.dirty
    /\ MissingCoinInput(last.pre.SiacoinOutputs, last.block)
    /\ last.block = Block5
    /\ TheContract \in DOMAIN last.pre.FileContracts
    /\ db = last.pre

----------------------------------------------------------------------------
\* the contracts block b forms
Formations(b) ==
    UNION {{[id |-> FileContractID(b.Transactions[t].id, i),
             by |-> b.Transactions[t].id, at |-> t] :
               i \in 1 .. Len(b.Transactions[t].FileContracts)} :
           t \in TxnIdx(b)}

\* the ids of the transactions of txns[i..] revising contract c, one entry
\* per revision, in arrival order
RECURSIVE Revisers(_, _, _)
Revisers(txns, i, c) ==
    IF i > Len(txns) THEN <<>>
    ELSE Copies(Cardinality(
                  {k \in 1 .. Len(txns[i].FileContractRevisions) :
                      txns[i].FileContractRevisions[k].ParentID = c}),
                txns[i].id)
         \o Revisers(txns, i + 1, c)

\* C6: a contract formed by T and revised by R1..Rn has creator T and the
\* revision list [R1..Rn] in arrival order; neither a revision nor a
\* storage proof changes the creator.  Stated after every committed block.
C6_RevisionsAccumulate ==
    Ok =>
      \A c \in DOMAIN db.FileContracts :
        LET f == {r \in Formations(last.block) : r.id = c}
            fr == CHOOSE r \in f : TRUE
        IN IF f # {}
           THEN /\ db.FileContracts[c].Contract = fr.by
                /\ db.FileContracts[c].Revisions =
                       Revisers(last.block.Transactions, fr.at, c)
           ELSE /\ c \in DOMAIN last.pre.FileContracts
                /\ db.FileContracts[c].Contract =
                       last.pre.FileContracts[c].Contract
                /\ db.FileContracts[c].Revisions =
                       last.pre.FileContracts[c].Revisions
                       \o Revisers(last.block.Transactions, 1, c)

\* the contract of Block2 after the revision in Block2 and the two
\* revisions and the proofs of Block3
C6_Witness ==
    /\ Ok
    /\ TheContract \in DOMAIN db.FileContracts
    /\ db.FileContracts[TheContract].Contract = TxID(2, 2)
    /\ db.FileContracts[TheContract].Revisions =
           <<TxID(2, 3), TxID(3, 1), TxID(3, 2)>>
    /\ db.FileContracts[TheContract].Proof # ZeroHash

----------------------------------------------------------------------------
\* C7: the summary stored for the genesis block carries RootDepth, whatever
\* the consensus lookup would answer and in every build; the call is never
\* aborted.
C7_GenesisTarget ==
    (Called /\ last.block.id = genesisBlockID) =>
        /\ last.err # "panic"
        /\ Ok => /\ last.height \in DOMAIN db.Heights
                 /\ db.Heights[last.height].ID = genesisBlockID
                 /\ db.Heights[last.height].Target = RootDepth

\* the genesis block indexed in a debug, non-test build while consensus
\* would not find its parent
C7_Witness ==
    /\ Ok /\ last.block.id = genesisBlockID
    /\ DEBUG /\ Release # "testing" /\ ~last.look.exists
    /\ db.Heights[last.height].Target = RootDepth

\* the target addBlockDB is to store for a block that is not the genesis
ExpectedTarget ==
    IF DEBUG /\ Release = "testing" THEN RootDepth ELSE last.look.target

\* b has one miner payout, one transaction, and that has one coin output
\* and nothing else
IsScenario(b) ==
    /\ Len(b.MinerPayouts) = 1
    /\ Len(b.Transactions) = 1
    /\ Len(b.Transactions[1].SiacoinOutputs) = 1
    /\ TxnAddrs(b.Transactions[1]) = b.Transactions[1].SiacoinOutputs
    /\ CoinSpends(b) = {} /\ FundSpends(b) = {}
    /\ b.Transactions[1].StorageProofs = <<>>
    /\ b.MinerPayouts[1] # b.Transactions[1].SiacoinOutputs[1]
    /\ b.id # genesisBlockID

\* C8: block B1 at height h with one payout to X and one transaction T1
\* with one coin output O1 to Y (X # Y), indexed when neither X nor Y has
\* a list yet:
\* Addresses[X] = [B1.id], Addresses[Y] = [T1.id], SiacoinOutputs[O1] =
\* (T1, empty), Heights[h] = (B1.id, timestamp, target, size),
\* Hashes[B1.id] = block, Hashes[T1.id] = transaction.
C8_EndToEnd ==
    (/\ Ok
     /\ IsScenario(last.block)
     /\ last.block.MinerPayouts[1] \notin DOMAIN last.pre.Addresses
     /\ last.block.Transactions[1].SiacoinOutputs[1]
            \notin DOMAIN last.pre.Addresses) =>
        LET b == last.block
            t == b.Transactions[1]
        IN /\ db.Addresses[b.MinerPayouts[1]] = <<b.id>>
           /\ db.Addresses[t.SiacoinOutputs[1]] = <<t.id>>
           /\ db.SiacoinOutputs[SiacoinOutputID(t.id, 1)] =
                  [OutputTx |-> t.id, InputTx |-> ZeroHash]
           /\ db.Heights[last.height] =
                  [ID |-> b.id, Timestamp |-> b.Timestamp,
                   Target |-> ExpectedTarget, Size |-> MarshalLen(b)]
           /\ db.Hashes[b.id] = "hashBlock"
           /\ db.Hashes[t.id] = "hashTransaction"

C8_Witness ==
    /\ Ok /\ ~last.fired
    /\ IsScenario(last.block)
    /\ last.pre.Addresses = <<>>
    /\ db.Addresses[X] = <<last.block.id>>
    /\ db.Heights[last.height].Target = "ChildTarget"

----------------------------------------------------------------------------
\* C9: in a debug+test build, a block that is not the genesis and whose
\* parent consensus does not find is indexed with the RootDepth target; the
\* call is not aborted.
C9_TestFallback ==
    (/\ Called
     /\ DEBUG /\ Release = "testing"
     /\ last.block.id # genesisBlockID
     /\ ~last.look.exists) =>
        /\ last.err # "panic"
        /\ Ok => db.Heights[last.height].Target = RootDepth

\* the outputs and contracts of b as first written
FreshOutput(by) == [OutputTx |-> by, InputTx |-> ZeroHash]
FreshContract(by) == [Contract |-> by, Revisions |-> <<>>, Proof |-> ZeroHash]

\* C10: re-invoking addBlockDB with an indexed block succeeds, appends the
\* block's and its transactions' ids again to the list of every address the
\* block refers to, and writes the outputs and contracts the block created
\* in their fresh state.
C10_Reinvocation ==
    (/\ Returned /\ ~last.fired
     /\ last.block.id \in DOMAIN last.pre.Blocks
     /\ last.pre.Blocks[last.block.id].Block = last.block) =>
        /\ Ok
        /\ \A a \in Addrs :
              ListOf(db, a) = ListOf(last.pre, a) \o BlockRefs(last.block, a)
        /\ \A r \in CoinCreations(last.block) :
              (~\E q \in CoinSpends(last.block) : q.id = r.id) =>
                  db.SiacoinOutputs[r.id] = FreshOutput(r.by)
        /\ \A r \in FundCreations(last.block) :
              (~\E q \in FundSpends(last.block) : q.id = r.id) =>
                  db.SiafundOutputs[r.id] = FreshOutput(r.by)
        /\ \A r \in Formations(last.block) :
              db.FileContracts[r.id] = FreshContract(r.by)

----------------------------------------------------------------------------
\* C11: in a debug, non-test build, addBlockDB of a block that is not the
\* genesis and whose parent consensus does not find aborts the process
\* instead of returning an error, before be.db.Begin is called: no
\* transaction is opened and the store holds no write of the block.
C11_PanicBeforeBegin ==
    (/\ Called
     /\ DEBUG /\ Release # "testing"
     /\ last.block.id # genesisBlockID
     /\ ~last.look.exists) =>
        /\ last.err = "panic"
        /\ ~alive
        /\ ~last.began /\ ~last.dirty /\ ~last.fired
        /\ db = last.pre

\* the abort happened on a store that earlier blocks had filled
C11_Witness ==
    /\ last.err = "panic" /\ ~alive /\ ~last.began
    /\ DEBUG /\ Release # "testing"
    /\ last.block.id # genesisBlockID /\ ~last.look.exists
    /\ last.pre # EmptyDB /\ db = last.pre

----------------------------------------------------------------------------
\* the contracts block b revises
RevisedIn(b) ==
    UNION {{b.Transactions[t].FileContractRevisions[k].ParentID :
               k \in 1 .. Len(b.Transactions[t].FileContractRevisions)} :
           t \in TxnIdx(b)}

\* o is the id of a valid or missed proof output of contract fcid
IsProofOutputOf(o, fcid) ==
    \E valid \in BOOLEAN : o = StorageProofOutputID(fcid, valid, o[6])

\* C12: when a committed block revises contract C, every proof-output
\* record the store held for C before the block keeps its value (creator
\* and spender); a revision only adds records.  (Blocks that form C again
\* or spend the output are left aside.)
C12_RevisionKeepsOldOutputs ==
    Ok =>
      \A c \in RevisedIn(last.block) :
        \A o \in DOMAIN last.pre.SiacoinOutputs :
          (/\ IsProofOutputOf(o, c)
           /\ ~\E f \in Formations(last.block) : f.id = c
           /\ ~\E q \in CoinSpends(last.block) : q.id = o) =>
              /\ o \in DOMAIN db.SiacoinOutputs
              /\ db.SiacoinOutputs[o] = last.pre.SiacoinOutputs[o]

----------------------------------------------------------------------------
\* the position in the chain of the block with id bid
ChainPos(bid) == bid[2]

\* the last call handed over a block that was not indexed before and that
\* comes after every indexed block in the chain
InOrder ==
    /\ Called
    /\ \A bid \in DOMAIN last.pre.Blocks :
           ChainPos(bid) < ChainPos(last.block.id)

\* the spender recorded in bucket "before" for o is still the one in "after"
SpenderKept(before, after) ==
    \A o \in DOMAIN before :
        before[o].InputTx # ZeroHash =>
            /\ o \in DOMAIN after
            /\ after[o].InputTx = before[o].InputTx

\* C13: with every block handed over once and in chain order, the spender
\* of an output record, once it is a transaction id, is never replaced by
\* another id (a second input referencing the output does not overwrite
\* it) and never reset to empty.
C13_SpenderSetOnce ==
    InOrder =>
        /\ SpenderKept(last.pre.SiacoinOutputs, db.SiacoinOutputs)
        /\ SpenderKept(last.pre.SiafundOutputs, db.SiafundOutputs)

----------------------------------------------------------------------------
IsPrefix(p, q) == Len(p) <= Len(q) /\ \A j \in 1 .. Len(p) : q[j] = p[j]

\* the contracts block b carries a storage proof for
ProvedIn(b) ==
    UNION {{b.Transactions[t].StorageProofs[i] :
               i \in 1 .. Len(b.Transactions[t].StorageProofs)} :
           t \in TxnIdx(b)}

\* C14: with every block handed over once and in chain order, a contract's
\* revision list only grows at the end, a block that only proves the
\* contract leaves its creator and revision list as they were, and the
\* proof id, once set, is never replaced by a different transaction id.
C14_ContractMonotone ==
    InOrder =>
      \A c \in DOMAIN last.pre.FileContracts :
        /\ c \in DOMAIN db.FileContracts
        /\ IsPrefix(last.pre.FileContracts[c].Revisions,
                    db.FileContracts[c].Revisions)
        /\ (c \in ProvedIn(last.block) /\ c \notin RevisedIn(last.block)) =>
               /\ db.FileContracts[c].Contract =
                      last.pre.FileContracts[c].Contract
               /\ db.FileContracts[c].Revisions =
                      last.pre.FileContracts[c].Revisions
        /\ last.pre.FileContracts[c].Proof # ZeroHash =>
               db.FileContracts[c].Proof = last.pre.FileContracts[c].Proof

----------------------------------------------------------------------------
\* the revisions and the storage proofs of block b, with the contract they
\* refer to
RevisionRefs(b) ==
    UNION {{[id |-> b.Transactions[t].FileContractRevisions[k].ParentID,
             by |-> b.Transactions[t].id, at |-> t] :
               k \in 1 .. Len(b.Transactions[t].FileContractRevisions)} :
           t \in TxnIdx(b)}

ProofRefs(b) ==
    UNION {{[id |-> b.Transactions[t].StorageProofs[i],
             by |-> b.Transactions[t].id, at |-> t] :
               i \in 1 .. Len(b.Transactions[t].StorageProofs)} :
           t \in TxnIdx(b)}

\* reference s of block b is to a contract that has no record when s is
\* processed: none before the block, none formed by the transaction
\* itself or by an earlier one
NoContractFor(s, before, b) ==
    /\ s.id \notin DOMAIN before.FileContracts
    /\ ~\E f \in Formations(b) : f.id = s.id /\ f.at <= s.at

MissingRevision(before, b) ==
    \E s \in RevisionRefs(b) : NoContractFor(s, before, b)

MissingProof(before, b) ==
    \E s \in ProofRefs(b) : NoContractFor(s, before, b)

MissingFundInput(before, b) ==
    \E s \in FundSpends(b) :
        /\ s.id \notin DOMAIN before.SiafundOutputs
        /\ ~\E r \in FundCreations(b) : r.id = s.id /\ r.at < s.at

\* C15: a block with a revision of or a storage proof for a contract that
\* has no record, or with a fund input whose output has no record, is
\* refused: the call does not succeed, the store is the store before the
\* call (so the missing record was not created), and the error returned
\* is ErrNilEntry unless the store itself failed first.
C15_MustExistFatal ==
    (/\ Called
     /\ \/ MissingRevision(last.pre, last.block)
        \/ MissingProof(last.pre, last.block)
        \/ MissingFundInput(last.pre, last.block)) =>
        /\ ~Ok
        /\ db = last.pre
        /\ (Returned /\ ~last.fired) => last.err = "ErrNilEntry"

\* a revision of a contract nobody formed, refused after writes of the
\* block had been made, on a store that earlier blocks had filled
C15_Witness ==
    /\ last.err = "ErrNilEntry" /\ ~last.fired /\ last.dirty
    /\ MissingRevision(last.pre, last.block)
    /\ last.pre # EmptyDB /\ db = last.pre
    /\ \A s \in RevisionRefs(last.block) :
           s.id \notin DOMAIN db.FileContracts

\* likewise a storage proof and a fund input
C15_WitnessProof ==
    /\ last.err = "ErrNilEntry" /\ ~last.fired /\ last.dirty
    /\ MissingProof(last.pre, last.block)
    /\ ~MissingRevision(last.pre, last.block)
    /\ db = last.pre

C15_WitnessFund ==
    /\ last.err = "ErrNilEntry" /\ ~last.fired /\ last.dirty
    /\ MissingFundInput(last.pre, last.block)
    /\ last.pre # EmptyDB /\ db = last.pre

----------------------------------------------------------------------------
\* the coin inputs of b that refer to an output b itself creates: before
\* the spending transaction (a payout, or an output of a transaction at a
\* smaller index), or not before it (by the spending transaction itself or
\* by a later one)
SpendsOfEarlier(b) ==
    {s \in CoinSpends(b) :
        \E r \in CoinCreations(b) : r.id = s.id /\ r.at < s.at}

SpendsOfLaterOrSelf(before, b) ==
    {s \in CoinSpends(b) :
        /\ s.id \notin DOMAIN before
        /\ \E r \in CoinCreations(b) : r.id = s.id
        /\ \A r \in CoinCreations(b) : r.id = s.id => r.at >= s.at}

\* nothing block b looks up is missing when it is looked up
AllLookupsFound(before, b) ==
    /\ ~MissingCoinInput(before.SiacoinOutputs, b)
    /\ ~MissingRevision(before, b)
    /\ ~MissingProof(before, b)
    /\ ~MissingFundInput(before, b)

\* C16: a block whose transactions spend outputs created earlier in the
\* same block (a payout of the block, an output of a transaction at a
\* smaller index) is indexed, and the records of those outputs show the
\* creator and that spender; a block with a transaction that spends an
\* output created only by itself or by a later transaction of the block
\* is refused and nothing of it is committed.
C16_IntraBlockOrder ==
    /\ (/\ Returned /\ ~last.fired
        /\ AllLookupsFound(last.pre, last.block)) =>
           /\ Ok
           /\ \A s \in SpendsOfEarlier(last.block) :
                  /\ s.id \in DOMAIN db.SiacoinOutputs
                  /\ db.SiacoinOutputs[s.id] =
                         ExpectedOutput(s.id, last.pre.SiacoinOutputs,
                                        CoinCreations(last.block),
                                        CoinSpends(last.block))
                  /\ db.SiacoinOutputs[s.id].InputTx # ZeroHash
    /\ (/\ Called
        /\ SpendsOfLaterOrSelf(last.pre.SiacoinOutputs, last.block) # {}) =>
           /\ ~Ok
           /\ db = last.pre
           /\ (Returned /\ ~last.fired) => last.err = "ErrNilEntry"

\* a block committed in which one transaction spent a payout of the block
\* and another the output of the transaction before it
C16_Witness ==
    /\ Ok /\ ~last.fired
    /\ \E s \in SpendsOfEarlier(last.block) :
           /\ s.id = MinerPayoutID(last.block.id, 1)
           /\ db.SiacoinOutputs[s.id] =
                  [OutputTx |-> last.block.id, InputTx |-> s.by]
    /\ \E s \in SpendsOfEarlier(last.block) :
           /\ s.at = 2
           /\ db.SiacoinOutputs[s.id] =
                  [OutputTx |-> last.block.Transactions[1].id,
                   InputTx |-> last.block.Transactions[2].id]

\* a block refused for spending the output of a later transaction
C16_WitnessLater ==
    /\ last.err = "ErrNilEntry" /\ ~last.fired /\ last.dirty
    /\ \E s \in SpendsOfLaterOrSelf(last.pre.SiacoinOutputs, last.block) :
           \E r \in CoinCreations(last.block) : r.id = s.id /\ r.at > s.at
    /\ last.pre # EmptyDB /\ db = last.pre

\* a block refused for a transaction spending its own output
C16_WitnessSelf ==
    /\ last.err = "ErrNilEntry" /\ ~last.fired /\ last.dirty
    /\ \E s \in SpendsOfLaterOrSelf(last.pre.SiacoinOutputs, last.block) :
           \E r \in CoinCreations(last.block) : r.id = s.id /\ r.at = s.at
    /\ TheContract \in DOMAIN last.pre.FileContracts
    /\ db = last.pre

----------------------------------------------------------------------------
\* every key of the bucket is registered in Hashes with category hashType
Registered(store, bucket, hashType) ==
    \A k \in DOMAIN store[bucket] :
        /\ k \in DOMAIN store.Hashes
        /\ store.Hashes[k] = hashType

\* C17: in every committed store, every key of Blocks, Transactions,
\* SiacoinOutputs, SiafundOutputs, FileContracts and Addresses has an entry
\* in Hashes, and that entry is the category of the collection (hashes of
\* different categories being distinct).
C17_HashRegistryCoverage ==
    /\ Registered(db, "Blocks", "hashBlock")
    /\ Registered(db, "Transactions", "hashTransaction")
    /\ Registered(db, "SiacoinOutputs", "hashCoinOutputID")
    /\ Registered(db, "SiafundOutputs", "hashFundOutputID")
    /\ Registered(db, "FileContracts", "hashFilecontract")
    /\ Registered(db, "Addresses", "hashUnlockHash")

\* a committed store in which each of the six collections has a key, the
\* coin outputs including a payout and a proof output
C17_Witness ==
    /\ Ok
    /\ \A bk \in Buckets : db[bk] # <<>>
    /\ MinerPayoutID(BlockID(1), 1) \in DOMAIN db.SiacoinOutputs
    /\ StorageProofOutputID(TheContract, TRUE, 1) \in DOMAIN db.SiacoinOutputs
    /\ Cardinality(DOMAIN db.Hashes) >
           Cardinality(DOMAIN db.Blocks) + Cardinality(DOMAIN db.Transactions)

----------------------------------------------------------------------------
\* the number of calls that returned nil (the caller stops at the first
\* call that does not)
Successes == IF Ok THEN calls ELSE IF Called THEN calls - 1 ELSE 0

\* the caller increased its counter between any two successful calls: no
\* two of them wrote the summary of the same height
HeightAdvancedEveryCall == Cardinality(DOMAIN db.Heights) = Successes

\* the summary at the height of every block record is that block's
HeightsMatchBlocks(store) ==
    \A bid \in DOMAIN store.Blocks :
        /\ store.Blocks[bid].Height \in DOMAIN store.Heights
        /\ store.Heights[store.Blocks[bid].Height].ID = bid
        /\ store.Blocks[bid].Block.id = bid

\* C18: addBlockDB never changes the caller's height counter; when the
\* caller increased the counter between any two successful calls, every
\* block record (payload, h) of the committed store has Heights[h].ID equal
\* to the block's id and every summary is that of an indexed block; a call
\* that fails adds neither a block record nor a height summary.
C18_HeightBlockConsistency ==
    /\ [][calls' # calls => blockchainHeight' = blockchainHeight]_vars
    /\ [](HeightAdvancedEveryCall =>
            /\ HeightsMatchBlocks(db)
            /\ \A h \in DOMAIN db.Heights :
                   db.Heights[h].ID \in DOMAIN db.Blocks)
    /\ []((Called /\ ~Ok) =>
            /\ db.Blocks = last.pre.Blocks
            /\ db.Heights = last.pre.Heights)

\* three blocks indexed at three heights
C18_Witness ==
    /\ Ok /\ calls = 3 /\ HeightAdvancedEveryCall
    /\ DOMAIN db.Heights = {0, 1, 2}
    /\ Cardinality(DOMAIN db.Blocks) = 3
    /\ HeightsMatchBlocks(db)

\* a call refused after its block record and summary had been written
C18_WitnessFailed ==
    /\ Returned /\ ~Ok /\ last.dirty
    /\ last.pre # EmptyDB
    /\ last.height \notin DOMAIN db.Heights
    /\ last.block.id \notin DOMAIN db.Blocks

====
